---- MODULE Spec2Model ----
(***************************************************************************)
(* regex404 (src/main.rs): the single-file pipeline match_file and the     *)
(* renovate scan.  Text is a sequence of one-character strings; offsets    *)
(* are the 0-based byte offsets of the Rust code, and an absent            *)
(* Option<usize> is -1.  The escape character 0x1b is written ESC.         *)
(***************************************************************************)
EXTENDS Integers, Sequences, FiniteSets, TLC

\* Longest pattern, in tokens, that Init draws.
MaxTok == 5

\* Most characters of the file's alphabet that Init draws, as the whole
\* content or in front of a text the pattern matches.
MaxHay == 1

\* Most matchers in a configuration, and most file patterns and most match
\* strings in a matcher, that Init draws.
MaxMatchers == 2
MaxPatterns == 2
MaxRegexes == 2

\* Most directory entries below the root that Init draws.
MaxEntries == 2

\* Longest file pattern, in characters, that the selector runs draw.
MaxSel == 3

ESC == "ESC"

(***************************************************************************)
(* str primitives                                                          *)
(***************************************************************************)

\* t occurs in s at 0-based offset i
StartsWithAt(s, t, i) ==
    /\ i >= 0
    /\ i + Len(t) <= Len(s)
    /\ \A k \in 1..Len(t) : s[i + k] = t[k]

\* str::find: offset of the first occurrence, -1 for None
find(s, t) ==
    LET H == {i \in 0..(Len(s) - Len(t)) : StartsWithAt(s, t, i)}
    IN  IF H = {} THEN -1 ELSE CHOOSE i \in H : \A j \in H : i <= j

\* str::rfind: offset of the last occurrence, -1 for None
rfind(s, t) ==
    LET H == {i \in 0..(Len(s) - Len(t)) : StartsWithAt(s, t, i)}
    IN  IF H = {} THEN -1 ELSE CHOOSE i \in H : \A j \in H : i >= j

\* s[a..b), 0-based half-open
Slice(s, a, b) == SubSeq(s, a + 1, b)

RECURSIVE ReplaceFrom(_, _, _, _)
ReplaceFrom(s, from, to, i) ==
    IF from = <<>>
    THEN IF i >= Len(s) THEN to
         ELSE to \o <<s[i + 1]>> \o ReplaceFrom(s, from, to, i + 1)
    ELSE IF i >= Len(s) THEN <<>>
         ELSE IF StartsWithAt(s, from, i)
              THEN to \o ReplaceFrom(s, from, to, i + Len(from))
              ELSE <<s[i + 1]>> \o ReplaceFrom(s, from, to, i + 1)

\* str::replace: every non-overlapping occurrence, left to right; the empty
\* pattern matches at every character boundary
replace(s, from, to) == ReplaceFrom(s, from, to, 0)

(***************************************************************************)
(* colored: ColoredString's Display                                        *)
(***************************************************************************)

\* the palette of match_file
colors == <<"Blue", "Green", "Red", "Black">>

\* the foreground code colored writes for a color
FgCode(color) ==
    CASE color = "Blue"  -> <<"3", "4">>
      [] color = "Green" -> <<"3", "2">>
      [] color = "Red"   -> <<"3", "1">>
      [] color = "Black" -> <<"3", "0">>

Style(color) == <<ESC, "[">> \o FgCode(color) \o <<"m">>

Reset == <<ESC, "[", "0", "m">>

RECURSIVE EscapeFrom(_, _, _)
EscapeFrom(s, style, i) ==
    IF i >= Len(s) THEN <<>>
    ELSE IF StartsWithAt(s, Reset, i)
         THEN Reset \o style \o EscapeFrom(s, style, i + Len(Reset))
         ELSE <<s[i + 1]>> \o EscapeFrom(s, style, i + 1)

\* colored re-opens the outer style after every reset inside the text
escape_inner_reset_sequences(s, color) == EscapeFrom(s, Style(color), 0)

\* s.color(color).to_string() when colored's has_colors() holds
Colorize(s, color) ==
    Style(color) \o escape_inner_reset_sequences(s, color) \o Reset

(***************************************************************************)
(* The pattern: its source text and the group names the engine reads       *)
(***************************************************************************)

\* the source text each token stands for: the literals m and <a>, the
\* openers (?<a> (?<b> ( and (?:, the closers ) and )?
TokText(t) ==
    CASE t = "m"  -> <<"m">>
      [] t = "La" -> <<"<", "a", ">">>
      [] t = "Oa" -> <<"(", "?", "<", "a", ">">>
      [] t = "Ob" -> <<"(", "?", "<", "b", ">">>
      [] t = "Ou" -> <<"(">>
      [] t = "On" -> <<"(", "?", ":">>
      [] t = "C"  -> <<")">>
      [] t = "CQ" -> <<")", "?">>

RECURSIVE Expand(_)
Expand(ts) == IF ts = <<>> THEN <<>> ELSE TokText(Head(ts)) \o Expand(Tail(ts))

Leaves == {"m", "La"}

\* a group is opened and closed; a named group may be optional
Groups == {<<"Oa", "C">>, <<"Oa", "CQ">>, <<"Ob", "C">>, <<"Ob", "CQ">>,
           <<"Ou", "C">>, <<"On", "C">>}

\* balanced token sequences of exactly n tokens
RECURSIVE Balanced(_)
Balanced(n) ==
    IF n = 0 THEN {<<>>}
    ELSE {<<l>> \o r : l \in Leaves, r \in Balanced(n - 1)}
         \cup IF n < 2 THEN {}
              ELSE UNION {{<<g[1]>> \o b \o <<g[2]>> \o r :
                              g \in Groups, b \in Balanced(k),
                              r \in Balanced(n - 2 - k)} : k \in 0..(n - 2)}

Count(ts, t) == Cardinality({k \in 1..Len(ts) : ts[k] = t})

\* what Regex::new accepts among them: a group name is declared once
ValidTokens(n) ==
    {ts \in UNION {Balanced(k) : k \in 0..n} :
        Count(ts, "Oa") <= 1 /\ Count(ts, "Ob") <= 1}

Sources(n) == {Expand(ts) : ts \in ValidTokens(n)}

\* offsets of the '(' that open a capturing group, named or not
IsCapOpen(src, p) ==
    /\ p < Len(src)
    /\ src[p + 1] = "("
    /\ ~StartsWithAt(src, <<"?", ":">>, p + 1)

IsNamedOpen(src, p) == IsCapOpen(src, p) /\ StartsWithAt(src, <<"?", "<">>, p + 1)

\* the name spelled after "(?<" at p, up to the '>'
NameAt(src, p) ==
    LET close == CHOOSE e \in (p + 3)..Len(src) :
                    /\ src[e + 1] = ">"
                    /\ \A k \in (p + 3)..(e - 1) : src[k + 1] # ">"
    IN  Slice(src, p + 3, close)

None == [some |-> FALSE, v |-> <<>>]
Some(x) == [some |-> TRUE, v |-> x]

RECURSIVE CaptureNamesFrom(_, _)
CaptureNamesFrom(src, p) ==
    IF p >= Len(src) THEN <<>>
    ELSE IF IsNamedOpen(src, p)
         THEN <<Some(NameAt(src, p))>> \o CaptureNamesFrom(src, p + 1)
         ELSE IF IsCapOpen(src, p)
              THEN <<None>> \o CaptureNamesFrom(src, p + 1)
              ELSE CaptureNamesFrom(src, p + 1)

\* Regex::capture_names: the implicit whole-match group, then every
\* capturing group in the order of its opening parenthesis
capture_names(src) == <<None>> \o CaptureNamesFrom(src, 0)

GroupNames(src) ==
    {capture_names(src)[k].v : k \in {j \in 1..Len(capture_names(src)) :
                                        capture_names(src)[j].some}}

(***************************************************************************)
(* Regex::captures on these patterns: literals, groups and optional        *)
(* groups, matched leftmost-first as the regex crate does                  *)
(***************************************************************************)

Parens(src, a, b, c) == Cardinality({k \in (a + 1)..b : src[k] = c})

\* offset just after the ')' that closes the '(' at p
CloseOf(src, p) ==
    CHOOSE e \in (p + 1)..Len(src) :
        /\ Parens(src, p, e, "(") = Parens(src, p, e, ")")
        /\ \A e2 \in (p + 1)..(e - 1) :
              Parens(src, p, e2, "(") # Parens(src, p, e2, ")")

\* length of what opens the group at p: "(", "(?:" or "(?<name>"
HeaderLen(src, p) ==
    IF StartsWithAt(src, <<"?", ":">>, p + 1) THEN 3
    ELSE IF StartsWithAt(src, <<"?", "<">>, p + 1) THEN 4 + Len(NameAt(src, p))
    ELSE 1

\* every way of A followed by every way of B, the ways of A first
Cross(A, B) ==
    [k \in 1..(Len(A) * Len(B)) |->
        LET x == A[((k - 1) \div Len(B)) + 1]
            y == B[((k - 1) % Len(B)) + 1]
        IN  [text |-> x.text \o y.text, vals |-> x.vals @@ y.vals]]

RECURSIVE Ways(_, _, _)
\* the ways src[a..b) can match, in the order the engine prefers them: the
\* text matched and the value of every named group that takes part
Ways(src, a, b) ==
    IF a >= b THEN <<[text |-> <<>>, vals |-> <<>>]>>
    ELSE IF src[a + 1] = "("
         THEN LET close    == CloseOf(src, a)
                  optional == close < b /\ src[close + 1] = "?"
                  body     == Ways(src, a + HeaderLen(src, a), close - 1)
                  taken    == [k \in 1..Len(body) |->
                                 [text |-> body[k].text,
                                  vals |-> IF IsNamedOpen(src, a)
                                           THEN (NameAt(src, a) :> Some(body[k].text))
                                                    @@ body[k].vals
                                           ELSE body[k].vals]]
                  group    == IF optional
                              THEN taken \o <<[text |-> <<>>, vals |-> <<>>]>>
                              ELSE taken
              IN  Cross(group, Ways(src, IF optional THEN close + 1 ELSE close, b))
         ELSE Cross(<<[text |-> <<src[a + 1]>>, vals |-> <<>>]>>, Ways(src, a + 1, b))

NoCaptures == [found |-> FALSE, matcha |-> <<>>, vals |-> <<>>]

\* re.captures(&haystack): the leftmost match, the preferred way first
captures_of(src, hay) ==
    LET ws   == Ways(src, 0, Len(src))
        hits == {h \in (0..Len(hay)) \X (1..Len(ws)) :
                    StartsWithAt(hay, ws[h[2]].text, h[1])}
    IN  IF hits = {} THEN NoCaptures
        ELSE LET h == CHOOSE h1 \in hits : \A h2 \in hits :
                         h1[1] < h2[1] \/ (h1[1] = h2[1] /\ h1[2] <= h2[2])
                 w == ws[h[2]]
             IN  [found |-> TRUE,
                  matcha |-> w.text,
                  vals |-> [g \in GroupNames(src) |->
                               IF g \in DOMAIN w.vals THEN w.vals[g] ELSE None]]

(***************************************************************************)
(* match_file, lines 149-182: the enclosing-group span of one capture      *)
(***************************************************************************)

\* format!("<{name}>")
capgroup_name(name) == <<"<">> \o name \o <<">">>

RECURSIVE ScanParens(_, _, _, _)
\* the for loop of lines 161-178 from offset i on
ScanParens(s, i, opened_parens, end) ==
    IF i >= Len(s) THEN end
    ELSE LET c  == s[i + 1]
             o1 == IF c = "(" THEN opened_parens + 1 ELSE opened_parens
             o2 == IF c = ")" THEN o1 - 1 ELSE o1
             e2 == IF c = ")" THEN i + 1 ELSE end
         IN  IF o2 = 0 THEN e2 ELSE ScanParens(s, i + 1, o2, e2)

Panicked == [ok |-> FALSE, start |-> -1, end |-> -1]

\* capgroup_start2 and end; an expect or unwrap of None panics
SpanLocator(s, name) ==
    LET capgroup_start == find(s, capgroup_name(name))
    IN  IF capgroup_start = -1 THEN Panicked
        ELSE LET capgroup_start2 == rfind(Slice(s, 0, capgroup_start), <<"(">>)
             IN  IF capgroup_start2 = -1 THEN Panicked
                 ELSE LET end == ScanParens(s, capgroup_start2 + 1, 1, -1)
                      IN  IF end = -1 THEN Panicked
                          ELSE [ok |-> TRUE, start |-> capgroup_start2, end |-> end]

\* AnnotatePattern without the text after the span
AnnotatePattern_dropTail(s, start, end, color) ==
    Slice(s, 0, start) \o Colorize(Slice(s, start, end), color)

\* lines 179-181: the text before the span, the span colored, the text after
AnnotatePattern(s, start, end, color) ==
    Slice(s, 0, start) \o Colorize(Slice(s, start, end), color) \o Slice(s, end, Len(s))

\* line 183
AnnotateMatch(matchstring, val, color) == replace(matchstring, val, Colorize(val, color))

(***************************************************************************)
(* State                                                                   *)
(***************************************************************************)

VARIABLES
    file,              \* the file on disk: None when it cannot be read
    re,                \* the source text of the compiled pattern
    coloring,          \* ShouldColorize::from_env().should_colorize()
    pc,                \* where match_file stands
    haystack,          \* match_file: the content read
    captures,          \* match_file: what re.captures answered
    caps,              \* match_file: Vec<Cap>
    i,                 \* match_file: captures rendered so far
    regexstring,
    regexstringprint,
    matchstring,
    matches,
    spans,             \* capgroup_start2, end and capg of every iteration
    stdout,            \* the lines printed
    stderr,            \* the warnings logged
    result             \* what match_file returned

fvars == <<file, re, coloring, pc, haystack, captures, caps, i, regexstring,
           regexstringprint, matchstring, matches, spans, stdout, stderr, result>>

VARIABLES
    conffile,          \* the configuration file: "unreadable", "malformed" or "ok"
    custom_matchers,   \* renovate: the matchers the document holds
    tree,              \* what WalkDir::new(".") yields, in its order
    spc,               \* where renovate stands
    matcher_ix,        \* renovate: the matcher the outer loop is at
    pattern_ix,        \* renovate: the file pattern of that matcher
    entry_ix,          \* renovate: the directory entry
    regex_ix,          \* renovate: the match string of that matcher
    pattern,           \* renovate: the file pattern, trimmed
    file_regex,        \* renovate: the source of the compiled file pattern
    calls,             \* the match_file calls that returned
    failed,            \* a match_file call has returned an Err
    sresult            \* what renovate returned

svars == <<conffile, custom_matchers, tree, spc, matcher_ix, pattern_ix, entry_ix,
           regex_ix, pattern, file_regex,
           calls, failed, sresult>>

vars == <<fvars, svars>>

Unset == [found |-> FALSE, matcha |-> <<"?">>, vals |-> <<>>]

\* the command that is not run stays as it is
FileIdle ==
    /\ file = None
    /\ re = <<>>
    /\ coloring = FALSE
    /\ pc = "idle"
    /\ haystack = <<>>
    /\ captures = Unset
    /\ caps = <<>>
    /\ i = 0
    /\ regexstring = <<>>
    /\ regexstringprint = <<>>
    /\ matchstring = <<>>
    /\ matches = <<>>
    /\ spans = <<>>
    /\ stdout = <<>>
    /\ stderr = <<>>
    /\ result = "running"

ScanIdle ==
    /\ conffile = "ok"
    /\ custom_matchers = <<>>
    /\ tree = <<>>
    /\ spc = "idle"
    /\ matcher_ix = 1
    /\ pattern_ix = 1
    /\ entry_ix = 1
    /\ regex_ix = 1
    /\ pattern = <<>>
    /\ file_regex = <<>>
    /\ calls = <<>>
    /\ failed = FALSE
    /\ sresult = "running"

\* the characters of the file: m also ends every color-control sequence
Alphabet == {"m"}

Texts(n) == UNION {[1..k -> Alphabet] : k \in 0..n}

\* the contents Init draws for a pattern: up to MaxHay characters, alone or
\* followed by a text the pattern matches
Contents(src) ==
    LET ws == Ways(src, 0, Len(src))
    IN  Texts(MaxHay) \cup {t \o ws[k].text : t \in Texts(MaxHay), k \in 1..Len(ws)}

InitFile ==
    /\ re \in Sources(MaxTok)
    /\ file \in {None} \cup {Some(t) : t \in Contents(re)}
    /\ coloring \in BOOLEAN
    /\ pc = "read"
    /\ haystack = <<>>
    /\ captures = Unset
    /\ caps = <<>>
    /\ i = 0
    /\ regexstring = <<>>
    /\ regexstringprint = <<>>
    /\ matchstring = <<>>
    /\ matches = <<>>
    /\ spans = <<>>
    /\ stdout = <<>>
    /\ stderr = <<>>
    /\ result = "running"
    /\ ScanIdle

(***************************************************************************)
(* match_file                                                              *)
(***************************************************************************)

\* lines 76-77: fs::read_to_string(file)?
ReadFile ==
    /\ pc = "read"
    /\ IF file.some
       THEN /\ haystack' = file.v
            /\ pc' = "names"
            /\ UNCHANGED result
       ELSE /\ result' = "IO"
            /\ pc' = "done"
            /\ UNCHANGED haystack
    /\ UNCHANGED <<file, re, coloring, captures, caps, i, regexstring,
                   regexstringprint, matchstring, matches, spans, stdout, stderr>>
    /\ UNCHANGED svars

\* NoCapGroup with < for <=
NoCapGroup_offByOne(src) == Len(capture_names(src)) < 1

\* line 86
NoCapGroup(src) == Len(capture_names(src)) <= 1

\* lines 86-89: warn!("no cap group"); return Ok(())
CheckCaptureNames ==
    /\ pc = "names"
    /\ IF NoCapGroup(re)
       THEN /\ stderr' = Append(stderr, "no cap group")
            /\ result' = "Ok"
            /\ pc' = "done"
       ELSE /\ pc' = "captures"
            /\ UNCHANGED <<stderr, result>>
    /\ UNCHANGED <<file, re, coloring, haystack, captures, caps, i, regexstring,
                   regexstringprint, matchstring, matches, spans, stdout>>
    /\ UNCHANGED svars

\* lines 100-103: re.captures(&haystack), None => Err(NoMatch)
Captures ==
    /\ pc = "captures"
    /\ captures' = captures_of(re, haystack)
    /\ IF captures'.found
       THEN pc' = "caps" /\ UNCHANGED result
       ELSE pc' = "done" /\ result' = "NoMatch"
    /\ UNCHANGED <<file, re, coloring, haystack, caps, i, regexstring,
                   regexstringprint, matchstring, matches, spans, stdout, stderr>>
    /\ UNCHANGED svars

RECURSIVE CapsOf_keepMissing(_, _)
\* CapsOf recording a group without a value as an empty value
CapsOf_keepMissing(names, vals) ==
    IF names = <<>> THEN <<>>
    ELSE LET name == Head(names)
         IN  IF name.some
             THEN <<[name |-> name.v, value |-> vals[name.v].v]>>
                      \o CapsOf_keepMissing(Tail(names), vals)
             ELSE CapsOf_keepMissing(Tail(names), vals)

RECURSIVE CapsOf(_, _)
\* lines 110-126: the named groups with a value, in capture_names order
CapsOf(names, vals) ==
    IF names = <<>> THEN <<>>
    ELSE LET name == Head(names)
         IN  IF name.some /\ vals[name.v].some
             THEN <<[name |-> name.v, value |-> vals[name.v].v]>>
                      \o CapsOf(Tail(names), vals)
             ELSE CapsOf(Tail(names), vals)

RECURSIVE MissingOf(_, _)
\* line 122: one warning for every named group without a value
MissingOf(names, vals) ==
    IF names = <<>> THEN <<>>
    ELSE LET name == Head(names)
         IN  IF name.some /\ ~vals[name.v].some
             THEN <<"missing value">> \o MissingOf(Tail(names), vals)
             ELSE MissingOf(Tail(names), vals)

\* lines 105-138: the captures collected, the three strings set up
CollectCaps ==
    /\ pc = "caps"
    /\ caps' = CapsOf(capture_names(re), captures.vals)
    /\ stderr' = stderr \o MissingOf(capture_names(re), captures.vals)
    /\ regexstring' = re
    /\ regexstringprint' = re
    /\ matchstring' = captures.matcha
    /\ matches' = <<>>
    /\ i' = 0
    /\ pc' = "render"
    /\ UNCHANGED <<file, re, coloring, haystack, captures, spans, stdout, result>>
    /\ UNCHANGED svars

\* what a ColoredString displays: plain when coloring is off
Display(s, color) == IF coloring THEN Colorize(s, color) ELSE s

\* line 146: format!("<{namecolor}>: {valcolor}")
Found(cap, color) ==
    <<"<">> \o Display(cap.name, color) \o <<">", ":", " ">> \o Display(cap.value, color)

\* lines 140-186: one iteration of the loop over caps
RenderCapture ==
    /\ pc = "render"
    /\ i < Len(caps)
    /\ LET cap   == caps[i + 1]
           color == colors[(i % Len(colors)) + 1]
           sp    == SpanLocator(regexstring, cap.name)
       IN  IF coloring /\ ~sp.ok
           THEN /\ result' = "panic"
                /\ pc' = "done"
                /\ UNCHANGED <<i, regexstring, regexstringprint, matchstring,
                               matches, spans>>
           ELSE /\ IF coloring
                   THEN /\ regexstringprint' =
                               AnnotatePattern(regexstring, sp.start, sp.end, color)
                        /\ regexstring' = regexstringprint'
                        /\ matchstring' = AnnotateMatch(matchstring, cap.value, color)
                        /\ spans' = Append(spans,
                               [start |-> sp.start, end |-> sp.end,
                                capg |-> Slice(regexstring, sp.start, sp.end)])
                   ELSE UNCHANGED <<regexstring, regexstringprint, matchstring, spans>>
                /\ matches' = Append(matches, Found(cap, color))
                /\ i' = i + 1
                /\ UNCHANGED <<pc, result>>
    /\ UNCHANGED <<file, re, coloring, haystack, captures, caps, stdout, stderr>>
    /\ UNCHANGED svars

\* LoopExhausted leaving the loop at once
LoopExhausted_atOnce(k, cs) == TRUE

\* line 140: the iterator over caps is exhausted
LoopExhausted(k, cs) == k = Len(cs)

\* line 189
PrintRegex ==
    /\ pc = "render"
    /\ LoopExhausted(i, caps)
    /\ stdout' = Append(stdout, regexstringprint)
    /\ pc' = "printmatch"
    /\ UNCHANGED <<file, re, coloring, haystack, captures, caps, i, regexstring,
                   regexstringprint, matchstring, matches, spans, stderr, result>>
    /\ UNCHANGED svars

\* line 191
PrintMatch ==
    /\ pc = "printmatch"
    /\ stdout' = Append(stdout, matchstring)
    /\ pc' = "printcaps"
    /\ UNCHANGED <<file, re, coloring, haystack, captures, caps, i, regexstring,
                   regexstringprint, matchstring, matches, spans, stderr, result>>
    /\ UNCHANGED svars

\* line 193: one println per capture line
PrintCaptureLine ==
    /\ pc = "printcaps"
    /\ Len(stdout) < 2 + Len(matches)
    /\ stdout' = Append(stdout, matches[Len(stdout) - 1])
    /\ UNCHANGED <<file, re, coloring, pc, haystack, captures, caps, i, regexstring,
                   regexstringprint, matchstring, matches, spans, stderr, result>>
    /\ UNCHANGED svars

\* line 195
ReturnOk ==
    /\ pc = "printcaps"
    /\ Len(stdout) = 2 + Len(matches)
    /\ result' = "Ok"
    /\ pc' = "done"
    /\ UNCHANGED <<file, re, coloring, haystack, captures, caps, i, regexstring,
                   regexstringprint, matchstring, matches, spans, stdout, stderr>>
    /\ UNCHANGED svars

NextFile ==
    \/ ReadFile
    \/ CheckCaptureNames
    \/ Captures
    \/ CollectCaps
    \/ RenderCapture
    \/ PrintRegex
    \/ PrintMatch
    \/ PrintCaptureLine
    \/ ReturnOk


(***************************************************************************)
(* The engine on the file patterns: Regex::new and Regex::is_match for     *)
(* literals, escapes, '.', '^' and '$'                                     *)
(***************************************************************************)

RECURSIVE CompileFrom(_, _, _)
CompileFrom(src, k, depth) ==
    IF k > Len(src) THEN depth = 0
    ELSE IF src[k] = "\\" THEN k < Len(src) /\ CompileFrom(src, k + 2, depth)
    ELSE IF src[k] = "(" THEN CompileFrom(src, k + 1, depth + 1)
    ELSE IF src[k] = ")" THEN depth > 0 /\ CompileFrom(src, k + 1, depth - 1)
    ELSE CompileFrom(src, k + 1, depth)

\* Regex::new(src).is_ok(): no dangling escape, no unbalanced parenthesis
Compiles(src) == CompileFrom(src, 1, 0)

\* the character an escape stands for: \a is the bell
Escaped(c) == IF c = "a" THEN "BEL" ELSE c

RECURSIVE ParseFrom(_, _)
ParseFrom(src, k) ==
    IF k > Len(src) THEN <<>>
    ELSE IF src[k] = "\\"
         THEN <<[kind |-> "lit", c |-> Escaped(src[k + 1])]>> \o ParseFrom(src, k + 2)
    ELSE IF src[k] = "." THEN <<[kind |-> "any", c |-> "."]>> \o ParseFrom(src, k + 1)
    ELSE IF src[k] = "^" THEN <<[kind |-> "bol", c |-> "^"]>> \o ParseFrom(src, k + 1)
    ELSE IF src[k] = "$" THEN <<[kind |-> "eol", c |-> "$"]>> \o ParseFrom(src, k + 1)
    ELSE <<[kind |-> "lit", c |-> src[k]]>> \o ParseFrom(src, k + 1)

RECURSIVE MatchAt(_, _, _, _)
MatchAt(elems, k, text, pos) ==
    IF k > Len(elems) THEN TRUE
    ELSE CASE elems[k].kind = "bol" -> pos = 0 /\ MatchAt(elems, k + 1, text, pos)
           [] elems[k].kind = "eol" -> pos = Len(text) /\ MatchAt(elems, k + 1, text, pos)
           [] elems[k].kind = "any" ->
                  pos < Len(text) /\ MatchAt(elems, k + 1, text, pos + 1)
           [] elems[k].kind = "lit" ->
                  /\ pos < Len(text)
                  /\ text[pos + 1] = elems[k].c
                  /\ MatchAt(elems, k + 1, text, pos + 1)

\* Regex::is_match: the pattern matches somewhere in the text
is_match(src, text) ==
    \E pos \in 0..Len(text) : MatchAt(ParseFrom(src, 1), 1, text, pos)

(***************************************************************************)
(* renovate                                                                *)
(***************************************************************************)

\* char::to_lowercase on the letters the type tags use
LowerChar(c) ==
    CASE c = "R" -> "r"
      [] c = "E" -> "e"
      [] c = "G" -> "g"
      [] c = "X" -> "x"
      [] OTHER   -> c

\* str::to_lowercase
to_lowercase(s) == [k \in 1..Len(s) |-> LowerChar(s[k])]

\* line 225: the matcher is acted upon
IsRegexMatcher(matcher) == to_lowercase(matcher.type_) = <<"r", "e", "g", "e", "x">>

RECURSIVE TrimStart(_, _)
TrimStart(s, c) == IF s # <<>> /\ Head(s) = c THEN TrimStart(Tail(s), c) ELSE s

RECURSIVE TrimEnd(_, _)
TrimEnd(s, c) ==
    IF s # <<>> /\ s[Len(s)] = c THEN TrimEnd(SubSeq(s, 1, Len(s) - 1), c) ELSE s

\* str::trim_matches(c): every leading and every trailing c removed
trim_matches(s, c) == TrimEnd(TrimStart(s, c), c)

RECURSIVE trim_start_matches(_, _)
\* str::trim_start_matches(t): the prefix t removed as often as it repeats
trim_start_matches(s, t) ==
    IF t # <<>> /\ StartsWithAt(s, t, 0)
    THEN trim_start_matches(Slice(s, Len(t), Len(s)), t)
    ELSE s

\* lines 253-258: the text the file pattern is tested on
ComparisonText(regex_src, path) ==
    IF ~StartsWithAt(regex_src, <<".">>, 0)
    THEN trim_start_matches(path, <<".", "/">>)
    ELSE path

\* lines 75-196: how match_file ends on an entry; a directory and an
\* unreadable file fail in read_to_string
MatchFileResults(entry) ==
    IF entry.readable THEN {"Ok", "NoMatch", "panic"} ELSE {"IO"}

\* AfterCall returning the Err of match_file, as the ? operator would
AfterCall_propagate(res) == IF res = "Ok" THEN "running" ELSE res

\* lines 279-282: Ok and Err alike go on to the next match string
AfterCall(res) == IF res = "panic" THEN "panic" ELSE "running"

\* lines 215-222
LoadConfig ==
    /\ spc = "load"
    /\ IF conffile = "ok"
       THEN spc' = "matcher" /\ UNCHANGED sresult
       ELSE /\ spc' = "done"
            /\ sresult' = IF conffile = "unreadable" THEN "IO" ELSE "ParseFailure"
    /\ UNCHANGED <<conffile, custom_matchers, tree, matcher_ix, pattern_ix,
                   entry_ix, regex_ix, pattern, file_regex, calls, failed>>
    /\ UNCHANGED fvars

\* lines 224-227 and 288
NextMatcher ==
    /\ spc = "matcher"
    /\ IF matcher_ix > Len(custom_matchers)
       THEN /\ sresult' = "Ok"
            /\ spc' = "done"
            /\ UNCHANGED <<matcher_ix, pattern_ix>>
       ELSE IF ~IsRegexMatcher(custom_matchers[matcher_ix])
            THEN /\ matcher_ix' = matcher_ix + 1
                 /\ UNCHANGED <<spc, pattern_ix, sresult>>
            ELSE /\ spc' = "pattern"
                 /\ pattern_ix' = 1
                 /\ UNCHANGED <<matcher_ix, sresult>>
    /\ UNCHANGED <<conffile, custom_matchers, tree, entry_ix, regex_ix, pattern, file_regex,
                   calls, failed>>
    /\ UNCHANGED fvars

\* lines 229-244
NextPattern ==
    /\ spc = "pattern"
    /\ IF pattern_ix > Len(custom_matchers[matcher_ix].file_patterns)
       THEN /\ matcher_ix' = matcher_ix + 1
            /\ spc' = "matcher"
            /\ UNCHANGED <<entry_ix, pattern, file_regex, sresult>>
       ELSE /\ pattern' = trim_matches(custom_matchers[matcher_ix].file_patterns[pattern_ix], "/")
            /\ IF Compiles(pattern')
               THEN /\ file_regex' = pattern'
                    /\ entry_ix' = 1
                    /\ spc' = "entry"
                    /\ UNCHANGED sresult
               ELSE /\ sresult' = "ParseFailure"
                    /\ spc' = "done"
                    /\ UNCHANGED <<entry_ix, file_regex>>
            /\ UNCHANGED matcher_ix
    /\ UNCHANGED <<conffile, custom_matchers, tree, pattern_ix, regex_ix, calls, failed>>
    /\ UNCHANGED fvars

\* lines 246-266
NextEntry ==
    /\ spc = "entry"
    /\ IF entry_ix > Len(tree)
       THEN /\ pattern_ix' = pattern_ix + 1
            /\ spc' = "pattern"
            /\ UNCHANGED <<entry_ix, regex_ix>>
       ELSE IF \/ tree[entry_ix].err
               \/ ~is_match(file_regex, ComparisonText(file_regex, tree[entry_ix].path))
            THEN /\ entry_ix' = entry_ix + 1
                 /\ UNCHANGED <<spc, pattern_ix, regex_ix>>
            ELSE /\ regex_ix' = 1
                 /\ spc' = "regex"
                 /\ UNCHANGED <<entry_ix, pattern_ix>>
    /\ UNCHANGED <<conffile, custom_matchers, tree, matcher_ix, pattern, file_regex,
                   calls, failed, sresult>>
    /\ UNCHANGED fvars

\* lines 268-283
RunRegex ==
    /\ spc = "regex"
    /\ IF regex_ix > Len(custom_matchers[matcher_ix].regexes)
       THEN /\ entry_ix' = entry_ix + 1
            /\ spc' = "entry"
            /\ UNCHANGED <<regex_ix, calls, failed, sresult>>
       ELSE IF ~Compiles(custom_matchers[matcher_ix].regexes[regex_ix])
            THEN /\ sresult' = "ParseFailure"
                 /\ spc' = "done"
                 /\ UNCHANGED <<entry_ix, regex_ix, calls, failed>>
            ELSE \E res \in MatchFileResults(tree[entry_ix]) :
                    /\ sresult' = AfterCall(res)
                    /\ IF sresult' = "running"
                       THEN /\ calls' = Append(calls, <<matcher_ix, pattern_ix, entry_ix, regex_ix>>)
                            /\ failed' = (failed \/ res # "Ok")
                            /\ regex_ix' = regex_ix + 1
                            /\ UNCHANGED <<spc, entry_ix>>
                       ELSE /\ spc' = "done"
                            /\ UNCHANGED <<entry_ix, regex_ix, calls, failed>>
    /\ UNCHANGED <<conffile, custom_matchers, tree, matcher_ix, pattern_ix, pattern, file_regex>>
    /\ UNCHANGED fvars

NextScan ==
    \/ LoadConfig
    \/ NextMatcher
    \/ NextPattern
    \/ NextEntry
    \/ RunRegex

(***************************************************************************)
(* The inputs of the scan                                                  *)
(***************************************************************************)

SeqsUpTo(S, n) == UNION {[1..k -> S] : k \in 0..n}

TypeTags == {<<"R", "e", "g", "e", "x">>, <<"j", "s", "o", "n">>}

\* "/a/" selects every path with an a; "/\/" is a dangling escape once trimmed
PatternPool == {<<"/", "a", "/">>, <<"/", "\\", "/">>}

\* "(?<a>x)" compiles, "(" does not
RegexPool == {<<"(", "?", "<", "a", ">", "x", ")">>, <<"(">>}

Matchers ==
    [type_ : TypeTags,
     file_patterns : SeqsUpTo(PatternPool, MaxPatterns),
     regexes : SeqsUpTo(RegexPool, MaxRegexes)]

Entry(path, readable) == [err |-> FALSE, path |-> path, readable |-> readable]

ErrEntry == [err |-> TRUE, path |-> <<>>, readable |-> FALSE]

\* the root directory, which WalkDir yields first
Root == Entry(<<".">>, FALSE)

\* an unreadable entry, a file ./a and a directory ./ab
EntryPool == {ErrEntry, Entry(<<".", "/", "a">>, TRUE), Entry(<<".", "/", "a", "b">>, FALSE)}

Trees ==
    {<<Root>> \o t : t \in {u \in SeqsUpTo(EntryPool, MaxEntries) :
        \A k \in 1..Len(u) : \A l \in 1..Len(u) :
            (k # l /\ ~u[k].err) => u[k] # u[l]}}

ScanStart ==
    /\ spc = "load"
    /\ matcher_ix = 1
    /\ pattern_ix = 1
    /\ entry_ix = 1
    /\ regex_ix = 1
    /\ pattern = <<>>
    /\ file_regex = <<>>
    /\ calls = <<>>
    /\ failed = FALSE
    /\ sresult = "running"

InitScan ==
    /\ conffile \in {"unreadable", "malformed", "ok"}
    /\ custom_matchers \in SeqsUpTo(Matchers, MaxMatchers)
    /\ conffile # "ok" => custom_matchers = <<>>
    /\ tree \in Trees
    /\ ScanStart
    /\ FileIdle

\* the file patterns of the selector runs
SelChars == {"/", ".", "a", "\\", "^"}

ExamplePattern == <<"/", "^", "s", "r", "c", "\\", "/", "/">>

ExampleTree ==
    <<Root,
      Entry(<<".", "/", "s", "r", "c">>, FALSE),
      Entry(<<".", "/", "s", "r", "c", "/", "m", "a", "i", "n", ".", "t", "x", "t">>, TRUE),
      Entry(<<".", "/", "d", "o", "c", "s">>, FALSE),
      Entry(<<".", "/", "d", "o", "c", "s", "/", "r", "e", "a", "d", "m", "e", ".", "t", "x", "t">>, TRUE)>>

SmallTree ==
    <<Root,
      Entry(<<".", "/", "a">>, FALSE),
      Entry(<<".", "/", "a", "/", "a">>, TRUE),
      Entry(<<".", "/", ".", "a">>, TRUE)>>

InitSelect ==
    /\ conffile = "ok"
    /\ \E sel \in SeqsUpTo(SelChars, MaxSel) \cup {ExamplePattern} :
          custom_matchers =
              <<[type_ |-> <<"r", "e", "g", "e", "x">>,
                 file_patterns |-> <<sel>>,
                 regexes |-> <<<<"(", "?", "<", "a", ">", "x", ")">>>>]>>
    /\ tree \in {ExampleTree, SmallTree}
    /\ ScanStart
    /\ FileIdle

(***************************************************************************)
(* Specifications                                                          *)
(***************************************************************************)

\* the default invocation: match_file on one file
Spec == InitFile /\ [][NextFile]_vars

\* the renovate subcommand
SpecScan == InitScan /\ [][NextScan]_vars

\* the renovate subcommand on one matcher with one file pattern
SpecSelect == InitSelect /\ [][NextScan]_vars

(***************************************************************************)
(* Properties of match_file                                                *)
(***************************************************************************)

Digits == {"0", "1", "2", "3", "4", "5", "6", "7", "8", "9"}

\* length of the color-control sequence ESC [ digits m at offset p, 0 if none
MarkupLen(s, p) ==
    LET L == {n \in 3..(Len(s) - p) :
                 /\ s[p + 1] = ESC
                 /\ s[p + 2] = "["
                 /\ s[p + n] = "m"
                 /\ \A k \in 3..(n - 1) : s[p + k] \in Digits}
    IN  IF L = {} THEN 0 ELSE CHOOSE n \in L : \A n2 \in L : n <= n2

RECURSIVE StripFrom(_, _)
StripFrom(s, p) ==
    IF p >= Len(s) THEN <<>>
    ELSE IF MarkupLen(s, p) > 0 THEN StripFrom(s, p + MarkupLen(s, p))
         ELSE <<s[p + 1]>> \o StripFrom(s, p + 1)

\* s with every color-control sequence removed
StripMarkup(s) == StripFrom(s, 0)

\* the loop over caps has been entered
Rendering ==
    \/ pc \in {"render", "printmatch", "printcaps"}
    \/ pc = "done" /\ captures.found

\* offset of the '(' of "(?<g>", the definition of group g
DefStart(src, g) ==
    CHOOSE p \in 0..Len(src) : StartsWithAt(src, <<"(", "?">> \o capgroup_name(g), p)

\* 1 for the implicit group, and 1 for every capturing '('
TotalGroups(src) == 1 + Cardinality({p \in 0..(Len(src) - 1) : IsCapOpen(src, p)})

\* C1: on every pattern whose parentheses are all structural and balanced,
\* resolving a named group g returns the range from the '(' that opens g's
\* own definition to just after the ')' that closes it.
C1_SpanIsOwnConstruct ==
    (coloring /\ pc = "done" /\ captures.found) =>
        /\ result # "panic"
        /\ \A g \in GroupNames(re) :
              LET sp == SpanLocator(re, g)
              IN  /\ sp.ok
                  /\ sp.start = DefStart(re, g)
                  /\ sp.end = CloseOf(re, DefStart(re, g))

\* C4: the recorded captures are exactly the named groups that took part in
\* the match, each once with the value the engine gave, in the order the
\* groups are declared; a group without a value is left out.
C4_CapsAreParticipants ==
    Rendering =>
        /\ \A k \in 1..Len(caps) :
              /\ caps[k].name \in GroupNames(re)
              /\ captures.vals[caps[k].name].some
              /\ caps[k].value = captures.vals[caps[k].name].v
        /\ \A g \in GroupNames(re) :
              captures.vals[g].some =>
                  Cardinality({k \in 1..Len(caps) : caps[k].name = g}) = 1
        /\ \A k \in 1..Len(caps) : \A l \in 1..Len(caps) :
              k < l => DefStart(re, caps[k].name) < DefStart(re, caps[l].name)

C4_Witness ==
    /\ pc = "done"
    /\ result = "Ok"
    /\ TotalGroups(re) = 3
    /\ GroupNames(re) = {<<"a">>, <<"b">>}
    /\ DefStart(re, <<"b">>) < DefStart(re, <<"a">>)
    /\ ~captures.vals[<<"b">>].some
    /\ captures.vals[<<"a">>] = Some(<<>>)
    /\ caps = <<[name |-> <<"a">>, value |-> <<>>]>>

\* C5: a pattern with no group besides the implicit one is never matched:
\* no captures are taken, nothing is printed, and the run ends in success
\* with the notice, whatever the file holds.
C5_NoCapGroupShortCircuit ==
    (file.some /\ TotalGroups(re) <= 1) =>
        /\ captures = Unset
        /\ caps = <<>>
        /\ stdout = <<>>
        /\ pc = "done" => (result = "Ok" /\ stderr = <<"no cap group">>)

C5_Witness ==
    /\ pc = "done"
    /\ TotalGroups(re) <= 1
    /\ StartsWithAt(re, <<"(", "?", ":">>, 0)
    /\ file = Some(<<"m">>)
    /\ result = "Ok"

\* C8: a run that ends in an error has printed nothing; a line is printed
\* only once every capture has been rendered, and a run that matched and
\* succeeded has printed the pattern, the match and every capture line.
C8_AllOrNothing ==
    /\ result \in {"IO", "NoMatch", "panic"} => stdout = <<>>
    /\ stdout # <<>> =>
          /\ pc \in {"printmatch", "printcaps", "done"}
          /\ i = Len(caps)
          /\ Len(matches) = Len(caps)
    /\ (pc = "done" /\ result = "Ok" /\ TotalGroups(re) > 1) =>
          /\ captures.found
          /\ stdout = <<regexstringprint, matchstring>> \o matches

C8_Witness ==
    /\ result = "panic"
    /\ i = 1
    /\ Len(matches) = 1
    /\ stdout = <<>>

\* C9: with coloring on, the annotated match text with its color-control
\* sequences removed is the match text, and an empty capture value adds no
\* markup.
C9_MatchRoundTrip ==
    (coloring /\ Rendering) =>
        /\ StripMarkup(matchstring) = captures.matcha
        /\ (\A k \in 1..i : caps[k].value = <<>>) => matchstring = captures.matcha

Range(q) == {q[k] : k \in 1..Len(q)}

\* lexicographic order of the loop positions <<matcher, pattern, entry, regex>>
Before(a, b) ==
    \E k \in 1..4 : a[k] < b[k] /\ \A l \in 1..(k - 1) : a[l] = b[l]

\* the '/' delimiters removed: one in front and one behind, when present
StripOneSlash(s) ==
    LET t == IF s # <<>> /\ Head(s) = "/" THEN Tail(s) ELSE s
    IN  IF t # <<>> /\ t[Len(t)] = "/" THEN SubSeq(t, 1, Len(t) - 1) ELSE t

\* one leading "./" removed unless the file pattern starts with '.'
OneStripText(regex_src, path) ==
    IF regex_src # <<>> /\ Head(regex_src) = "."
    THEN path
    ELSE IF Len(path) >= 2 /\ path[1] = "." /\ path[2] = "/"
         THEN SubSeq(path, 3, Len(path))
         ELSE path

\* the entry ex is kept by file pattern px of matcher mx
Selects(mx, px, ex) ==
    LET src == trim_matches(custom_matchers[mx].file_patterns[px], "/")
    IN  /\ ~tree[ex].err
        /\ Compiles(src)
        /\ is_match(src, ComparisonText(src, tree[ex].path))

\* every (matcher, file pattern, entry, match string) the scan is to run
ExpectedCalls ==
    {<<mx, px, ex, rx>> \in
        (1..Len(custom_matchers)) \X (1..MaxPatterns) \X (1..Len(tree)) \X (1..MaxRegexes) :
        /\ IsRegexMatcher(custom_matchers[mx])
        /\ px <= Len(custom_matchers[mx].file_patterns)
        /\ rx <= Len(custom_matchers[mx].regexes)
        /\ Selects(mx, px, ex)}

\* C2: a match_file call that ends in NoMatch or in a read failure never
\* ends the scan: the calls are made in loop order with none left out, and
\* a scan that no compile failure and no panic ended returns Ok after all
\* of them.
C2_FailureTolerated ==
    conffile = "ok" =>
        /\ Range(calls) \subseteq ExpectedCalls
        /\ \A k \in 1..Len(calls) : \A l \in 1..Len(calls) :
              k < l => Before(calls[k], calls[l])
        /\ \A t \in ExpectedCalls : \A k \in 1..Len(calls) :
              Before(t, calls[k]) => t \in Range(calls)
        /\ sresult \in {"running", "Ok", "ParseFailure", "panic"}
        /\ (spc = "done" /\ sresult \notin {"ParseFailure", "panic"}) =>
              (sresult = "Ok" /\ Range(calls) = ExpectedCalls)

C2_Witness ==
    /\ spc = "done"
    /\ sresult = "Ok"
    /\ failed
    /\ Len(calls) >= 4
    /\ ~tree[calls[1][3]].readable
    /\ calls[1][1] = 1
    /\ calls[Len(calls)][1] = 2
    /\ \E k \in 1..Len(calls) : calls[k][4] = 2
    /\ \E k \in 1..Len(calls) : calls[k][2] = 2

\* a matcher that is acted upon holds a file pattern or a match string the
\* engine rejects
HasCompileDefect ==
    \E mx \in 1..Len(custom_matchers) :
        /\ IsRegexMatcher(custom_matchers[mx])
        /\ \/ \E px \in 1..Len(custom_matchers[mx].file_patterns) :
                 ~Compiles(trim_matches(custom_matchers[mx].file_patterns[px], "/"))
           \/ \E rx \in 1..Len(custom_matchers[mx].regexes) :
                 ~Compiles(custom_matchers[mx].regexes[rx])

\* C3: a scan over a configuration in which a regex matcher holds a file
\* pattern or a match string that does not compile ends in ParseFailure,
\* whatever the directory tree holds.
C3_DefectAborts ==
    (spc = "done" /\ conffile = "ok" /\ sresult # "panic" /\ HasCompileDefect) =>
        sresult = "ParseFailure"

\* C6: the file pattern that is compiled is the configured string less one
\* leading and one trailing '/'.
C6_TrimsOneSlash ==
    spc \in {"entry", "regex"} =>
        pattern = StripOneSlash(custom_matchers[matcher_ix].file_patterns[pattern_ix])

\* the paths match_file was called on
CalledPaths == {tree[c[3]].path : c \in Range(calls)}

\* the match strings are run on exactly the paths whose comparison text the
\* compiled file pattern matches
PathSelectionGeneral ==
    (spc = "done" /\ sresult = "Ok" /\ Len(custom_matchers) = 1) =>
        CalledPaths =
            {tree[ex].path : ex \in {x \in 1..Len(tree) :
                /\ ~tree[x].err
                /\ is_match(file_regex, OneStripText(file_regex, tree[x].path))}}

\* the file pattern /^src\// selects ./src/main.txt alone
PathSelectionExample ==
    (/\ spc = "done"
     /\ Len(custom_matchers) = 1
     /\ custom_matchers[1].file_patterns = <<ExamplePattern>>
     /\ tree = ExampleTree) =>
        /\ sresult = "Ok"
        /\ CalledPaths = {ExampleTree[3].path}

\* C7: a path is handed to the match strings exactly when the file pattern
\* matches its comparison text (the path less one leading "./" unless the
\* pattern starts with '.'), and /^src\// selects ./src/main.txt only.
C7_PathSelection == PathSelectionGeneral /\ PathSelectionExample

====
